---------------------------- MODULE Spec2Model ----------------------------
(***************************************************************************)
(* A model of PersianDatePicker (persian_date_picker.py): the calendar     *)
(* keyboard that create_calendar builds and the callback decoding of        *)
(* process_selection, split at its two suspension points.                   *)
(*                                                                         *)
(* Strings are sequences of one-character strings, so that startswith,     *)
(* split('_'), int() and the f-string formatting of integers are computed  *)
(* as Python computes them.  Display glyphs that are never parsed (month   *)
(* names, weekday letters, the holiday mark) are single elements.          *)
(***************************************************************************)
EXTENDS Integers, Sequences, FiniteSets, TLC

\* ------------------------------------------------------------------ bounds
\* show_calendar is asked for the years MINYEAR..MaxYear, and callbacks are
\* taken from a displayed keyboard only while its year is at most MaxYear.
MaxYear == 4
\* The number of process_selection calls that may be in flight at once.
NumCalls == 2

\* persiantools.jdatetime.MINYEAR: the first year JalaliDate accepts.
MINYEAR == 1
\* persiantools.jdatetime.MAXYEAR: the last year JalaliDate accepts.
MAXYEAR == 9377

\* ------------------------------------------------------------------ strings
Digits == <<"0", "1", "2", "3", "4", "5", "6", "7", "8", "9">>

IsDigit(ch) == \E i \in 1..10 : Digits[i] = ch

DigitVal(ch) == (CHOOSE i \in 1..10 : Digits[i] = ch) - 1

RECURSIVE NatToStr(_)
\* str(n) for n >= 0: decimal, no padding.
NatToStr(n) ==
    IF n < 10 THEN <<Digits[n + 1]>>
    ELSE NatToStr(n \div 10) \o <<Digits[(n % 10) + 1]>>

\* f"{n}" for an int n.
IntToStr(n) == IF n < 0 THEN <<"-">> \o NatToStr(-n) ELSE NatToStr(n)

RECURSIVE DigitsToNat(_)
DigitsToNat(s) ==
    IF s = <<>> THEN 0
    ELSE 10 * DigitsToNat(SubSeq(s, 1, Len(s) - 1)) + DigitVal(s[Len(s)])

\* int(s): an optional sign and then one or more decimal digits (leading
\* zeros allowed); anything else raises ValueError (ok = FALSE).
StrToInt(s) ==
    LET signed == s # <<>> /\ s[1] \in {"-", "+"}
        body   == IF signed THEN Tail(s) ELSE s
    IN  IF body # <<>> /\ \A i \in 1..Len(body) : IsDigit(body[i])
        THEN [ok |-> TRUE,
              val |-> IF signed /\ s[1] = "-" THEN -DigitsToNat(body)
                      ELSE DigitsToNat(body)]
        ELSE [ok |-> FALSE, val |-> 0]

\* s.startswith(p)
StartsWith(s, p) == Len(p) <= Len(s) /\ SubSeq(s, 1, Len(p)) = p

RECURSIVE SplitFrom(_, _, _, _)
\* The fields of s from position i on, cur being the field under way.
SplitFrom(s, sep, i, cur) ==
    IF i > Len(s) THEN <<cur>>
    ELSE IF s[i] = sep THEN <<cur>> \o SplitFrom(s, sep, i + 1, <<>>)
    ELSE SplitFrom(s, sep, i + 1, Append(cur, s[i]))

\* s.split(sep): always at least one field; empty fields are kept.
SplitOn(s, sep) == SplitFrom(s, sep, 1, <<>>)

\* callback_data.split('_')
Split(s) == SplitOn(s, "_")

RECURSIVE Join(_, _)
\* sep.join(fields)
Join(fields, sep) ==
    IF fields = <<>> THEN <<>>
    ELSE IF Len(fields) = 1 THEN fields[1]
    ELSE fields[1] \o sep \o Join(Tail(fields), sep)

\* ------------------------------------------------------------ calendar math
\* JalaliDate.is_leap(year)
is_leap(year) == ((year + 2346) * 683) % 2820 < 683

\* The leap years among 1..year-1 (the sum of is_leap telescopes).
LeapsBefore(year) == ((year + 2345) * 683) \div 2820 - (2346 * 683) \div 2820

\* The library's days_in_month, which validates JalaliDate(year, month, day).
LibDaysInMonth(year, month) ==
    IF month <= 6 THEN 31
    ELSE IF month <= 11 THEN 30
    ELSE IF is_leap(year) THEN 30 ELSE 29

\* Whether JalaliDate(year, month, day) is accepted (else ValueError).
ValidJalali(year, month, day) ==
    /\ year \in MINYEAR..MAXYEAR
    /\ month \in 1..12
    /\ day \in 1..LibDaysInMonth(year, month)

\* The days from 1/1/1 to year/month/day.
DayNumber(year, month, day) ==
    365 * (year - 1) + LeapsBefore(year)
    + (IF month <= 7 THEN (month - 1) * 31 ELSE 186 + (month - 7) * 30)
    + (day - 1)

\* JalaliDate(year, month, day).to_gregorian().weekday(): 0 = Monday ..
\* 6 = Sunday.  1/1/1402 is Tuesday 21 March 2023, which fixes the 4.
GregorianWeekday(year, month, day) == (DayNumber(year, month, day) + 4) % 7


\* ------------------------------------------------------------- picker state
VARIABLES
    callback_pattern,   \* self.callback_pattern
    weekdays,           \* self.weekdays
    holidays,           \* self.holidays: the keys of the loaded mapping
    today,              \* what JalaliDate.today() returns
    markup,             \* the reply markup of the calendar message
    calls               \* the process_selection calls, by call id

vars == <<callback_pattern, weekdays, holidays, today, markup, calls>>

\* An absent (None) argument, and a given one.
None == <<>>
Some(x) == <<x>>

\* Python's "not x" for an optional int: None and 0 are both falsy.
Falsy(x) == x = None \/ x = Some(0)

Cal == <<"c", "a", "l">>
Calendar == <<"c", "a", "l", "e", "n", "d", "a", "r">>
MyCalendar == <<"m", "y", "_">> \o Calendar

\* The callback_pattern arguments of the constructor: the default
\* "calendar", a pattern that "calendar" begins with, and the class
\* docstring's "my_calendar".
Patterns == {Calendar, Cal, MyCalendar}

\* The key f"{year}/{month}/{day}" of a date.
DateKey(year, month, day) ==
    IntToStr(year) \o <<"/">> \o IntToStr(month) \o <<"/">> \o IntToStr(day)

\* What _load_holidays can return: {} when the file cannot be read, else the
\* mapping of the file (its keys; the last one is zero-padded).
HolidayFiles ==
    { {},
      { DateKey(1, 1, 13), DateKey(2, 7, 5), DateKey(4, 12, 30),
        <<"3", "/", "0", "1", "/", "0", "2">> } }

\* What JalaliDate.today() can be: a day in mid-year, and the last day of a
\* leap year.
Todays ==
    { [year |-> 2, month |-> 7, day |-> 15],
      [year |-> 4, month |-> 12, day |-> 30] }

\* ---------------------------------------------------------------- keyboard
Button(text, data) == [text |-> text, callback_data |-> data]

Ignore == <<"i", "g", "n", "o", "r", "e">>
Prev == <<"p", "r", "e", "v">>
NextStr == <<"n", "e", "x", "t">>
Day == <<"d", "a", "y">>

HolidayMark == "(red)"

\* _get_persian_month_name: months[month - 1] of a 12-element list; Python
\* takes the negative indices -12..-1 from the end and raises IndexError
\* outside -12..11.
MonthNames ==
    <<"Farvardin", "Ordibehesht", "Khordad", "Tir", "Mordad", "Shahrivar",
      "Mehr", "Aban", "Azar", "Dey", "Bahman", "Esfand">>

MonthIndexOk(month) == (month - 1) \in -12..11

get_persian_month_name(month) ==
    IF month - 1 >= 0 THEN MonthNames[month] ELSE MonthNames[month + 12]

\* f"{pattern}_{action}_{year}_{month}"
NavToken(pattern, action, year, month) ==
    pattern \o <<"_">> \o action \o <<"_">> \o IntToStr(year)
        \o <<"_">> \o IntToStr(month)

\* f"{pattern}_day_{year}_{month}_{day}"
DayToken(pattern, year, month, day) ==
    NavToken(pattern, Day, year, month) \o <<"_">> \o IntToStr(day)

IsHolidaySaturday(year, month, day) ==
    \/ DateKey(year, month, day) \in holidays
    \/ GregorianWeekday(year, month, day) = 5

\* _is_holiday(date)
is_holiday(year, month, day) ==
    \/ DateKey(year, month, day) \in holidays
    \/ GregorianWeekday(year, month, day) = 4

\* start_weekday of create_calendar
start_weekday(year, month) == (GregorianWeekday(year, month, 1) + 2) % 7

DaysInMonthShort(year, month) ==
    IF month < 6 THEN 31
    ELSE IF month <= 11 THEN 30
    ELSE IF ~is_leap(year) THEN 29 ELSE 30

\* days_in_month of create_calendar
days_in_month(year, month) ==
    IF month <= 6 THEN 31
    ELSE IF month <= 11 THEN 30
    ELSE IF ~is_leap(year) THEN 29 ELSE 30

Blank == Button(<<" ">>, Ignore)

\* The cell of a day.
DayButton(year, month, day) ==
    Button(IF is_holiday(year, month, day)
           THEN <<HolidayMark>> \o IntToStr(day) ELSE IntToStr(day),
           DayToken(callback_pattern, year, month, day))

RECURSIVE AddDays(_, _, _, _, _, _)
\* The loop "for day in range(1, days_in_month + 1)" from day on, and the
\* padding of the last row that follows it.
AddDays(day, total, year, month, current_row, keyboard) ==
    IF day > total
    THEN IF current_row # <<>>
         THEN Append(keyboard,
                     current_row \o [i \in 1..(7 - Len(current_row)) |-> Blank])
         ELSE keyboard
    ELSE LET row == Append(current_row, DayButton(year, month, day))
         IN  IF Len(row) = 7
             THEN AddDays(day + 1, total, year, month, <<>>, Append(keyboard, row))
             ELSE AddDays(day + 1, total, year, month, row, keyboard)

NoKeyboard == [err |-> "none", year |-> 0, month |-> 0, keyboard |-> <<>>]

\* create_calendar(year, month) with optional arguments.  err is "none" or
\* the exception raised; year and month are the resolved arguments.
create_calendar(yearArg, monthArg) ==
    LET dflt  == Falsy(yearArg) \/ Falsy(monthArg)
        year  == IF dflt THEN today.year ELSE yearArg[1]
        month == IF dflt THEN today.month ELSE monthArg[1]
        header ==
            << Button(<<"<-">>, NavToken(callback_pattern, Prev, year, month)),
               Button(<<get_persian_month_name(month), " ">> \o IntToStr(year),
                      Ignore),
               Button(<<"->">>, NavToken(callback_pattern, NextStr, year, month)) >>
        heads == [i \in 1..Len(weekdays) |-> Button(<<weekdays[i]>>, Ignore)]
        first == [i \in 1..start_weekday(year, month) |-> Blank]
    IN  IF ~MonthIndexOk(month)
        THEN [NoKeyboard EXCEPT !.err = "IndexError", !.year = year, !.month = month]
        ELSE IF ~ValidJalali(year, month, 1)
        THEN [NoKeyboard EXCEPT !.err = "ValueError", !.year = year, !.month = month]
        ELSE [err |-> "none", year |-> year, month |-> month,
              keyboard |-> AddDays(1, days_in_month(year, month), year, month,
                                   first, <<header, heads>>)]


\* ------------------------------------------------------- process_selection
\* "year, month = map(int, fields)" and "year, month, day = map(int, fields)":
\* ok iff there are exactly n fields and int() accepts each; every other
\* case raises ValueError (from int(), or from the unpacking).
UnpackIntsLenient(fields, n) ==
    [ok   |-> Len(fields) >= n,
     vals |-> [i \in 1..n |-> IF i <= Len(fields) THEN StrToInt(fields[i]).val
                              ELSE 0]]

UnpackInts(fields, n) ==
    [ok   |-> Len(fields) = n /\ \A i \in 1..n : StrToInt(fields[i]).ok,
     vals |-> [i \in 1..n |-> IF i <= Len(fields) THEN StrToInt(fields[i]).val
                              ELSE 0]]

PrevMonthNoWrap(year, month) == [year |-> year, month |-> month - 1]

\* The month that the prev branch computes from (year, month).
PrevMonth(year, month) ==
    IF month - 1 < 1 THEN [year |-> year - 1, month |-> 12]
    ELSE [year |-> year, month |-> month - 1]

NextMonthKeepsYear(year, month) ==
    IF month + 1 > 12 THEN [year |-> year, month |-> 1]
    ELSE [year |-> year, month |-> month + 1]

\* The month that the next branch computes from (year, month).
NextMonth(year, month) ==
    IF month + 1 > 12 THEN [year |-> year + 1, month |-> 1]
    ELSE [year |-> year, month |-> month + 1]

\* What a call has produced: kind is "none" (None returned, nothing
\* rendered), "date" (value returned), "edit" (reply_markup is to be sent to
\* edit_message_reply_markup) or "error" (err raised to the caller).
Outcome(kind, value, err, kb) ==
    [kind |-> kind, value |-> value, err |-> err, reply_markup |-> kb]

ReturnNone == Outcome("none", <<>>, "none", NoKeyboard)

Raise(err) == Outcome("error", <<>>, err, NoKeyboard)

\* process_selection from "callback_data = query.data" up to its return, its
\* raise, or the call of edit_message_reply_markup.
Decode(data) ==
    IF ~StartsWith(data, callback_pattern) THEN ReturnNone
    ELSE LET fields == Split(data)
         IN  IF Len(fields) < 2 THEN Raise("IndexError")
             ELSE LET action == fields[2]
                      args   == SubSeq(fields, 3, Len(fields))
                  IN  IF action = Ignore \/ action = <<>> THEN ReturnNone
                      ELSE IF action \in {Prev, NextStr}
                      THEN LET ym == UnpackInts(args, 2)
                               to == IF action = Prev
                                     THEN PrevMonth(ym.vals[1], ym.vals[2])
                                     ELSE NextMonth(ym.vals[1], ym.vals[2])
                               kb == create_calendar(Some(to.year), Some(to.month))
                           IN  IF ~ym.ok THEN Raise("ValueError")
                               ELSE IF kb.err # "none" THEN Raise(kb.err)
                               ELSE Outcome("edit", <<>>, "none", kb)
                      ELSE IF action = Day
                      THEN LET ymd == UnpackInts(args, 3)
                           IN  IF ~ymd.ok THEN Raise("ValueError")
                               ELSE Outcome("date",
                                            IntToStr(ymd.vals[1]) \o <<"/">>
                                              \o IntToStr(ymd.vals[2]) \o <<"/">>
                                              \o IntToStr(ymd.vals[3]),
                                            "none", NoKeyboard)
                      ELSE ReturnNone

\* ------------------------------------------------------------------- calls
Calls == 1..NumCalls

NoCell == Button(<<>>, <<>>)

\* A call: pc is "idle", "answer" (awaiting query.answer()), "edit" (awaiting
\* edit_message_reply_markup) or "done".  cell and from record where the
\* callback data was taken from: the pressed button and the (year, month) of
\* its keyboard, or NoCell for data that no displayed button carries.
IdleCall ==
    [pc |-> "idle", data |-> <<>>, cell |-> NoCell,
     from |-> [year |-> 0, month |-> 0], out |-> ReturnNone]

AllIdle == \A c \in Calls : calls[c].pc = "idle"

Init ==
    /\ callback_pattern \in Patterns
    /\ weekdays = <<"sh", "y", "d", "s", "ch", "p", "j">>
    /\ holidays \in HolidayFiles
    /\ today \in Todays
    /\ markup = NoKeyboard
    /\ calls = [c \in Calls |-> IdleCall]

Shown == markup.keyboard # <<>>

\* show_calendar(message, year, month): a message with the keyboard of
\* create_calendar(year, month).
ShowCalendar(yearArg, monthArg) ==
    /\ AllIdle
    /\ create_calendar(yearArg, monthArg).err = "none"
    /\ markup' = create_calendar(yearArg, monthArg)
    /\ UNCHANGED <<callback_pattern, weekdays, holidays, today, calls>>

\* A button of the displayed keyboard is pressed: process_selection is
\* called with its callback data and awaits query.answer().
PressButton(c, r, k) ==
    /\ Shown
    /\ markup.year <= MaxYear
    /\ calls[c].pc = "idle"
    /\ r \in 1..Len(markup.keyboard)
    /\ k \in 1..Len(markup.keyboard[r])
    /\ calls' = [calls EXCEPT ![c] =
                    [IdleCall EXCEPT !.pc = "answer",
                                     !.data = markup.keyboard[r][k].callback_data,
                                     !.cell = markup.keyboard[r][k],
                                     !.from = [year |-> markup.year,
                                               month |-> markup.month]]]
    /\ UNCHANGED <<callback_pattern, weekdays, holidays, today, markup>>

\* process_selection is called with callback data that is not a button of
\* the displayed keyboard.
ForgedQuery(c, data) ==
    /\ Shown
    /\ calls[c].pc = "idle"
    /\ calls' = [calls EXCEPT ![c] =
                    [IdleCall EXCEPT !.pc = "answer", !.data = data]]
    /\ UNCHANGED <<callback_pattern, weekdays, holidays, today, markup>>

\* query.answer() has returned: the call runs to its return, its raise or
\* the await of edit_message_reply_markup.
Answered(c) ==
    /\ calls[c].pc = "answer"
    /\ LET out == Decode(calls[c].data)
       IN  calls' = [calls EXCEPT ![c].out = out,
                                  ![c].pc = IF out.kind = "edit" THEN "edit"
                                            ELSE "done"]
    /\ UNCHANGED <<callback_pattern, weekdays, holidays, today, markup>>

ReplyMarkupOfAnyCall(c) ==
    LET waiting == {d \in Calls : calls[d].pc = "edit"}
    IN  calls[CHOOSE d \in waiting : \A e \in waiting : d >= e].out.reply_markup

\* The reply_markup argument of the edit that call c awaits.
ReplyMarkupOf(c) == calls[c].out.reply_markup

\* edit_message_reply_markup has returned: the message shows the keyboard
\* and the call returns None.
Edited(c) ==
    /\ calls[c].pc = "edit"
    /\ markup' = ReplyMarkupOf(c)
    /\ calls' = [calls EXCEPT ![c].pc = "done"]
    /\ UNCHANGED <<callback_pattern, weekdays, holidays, today>>

\* The caller has taken the result of a finished call.
Return(c) ==
    /\ calls[c].pc = "done"
    /\ calls' = [calls EXCEPT ![c] = IdleCall]
    /\ UNCHANGED <<callback_pattern, weekdays, holidays, today, markup>>


\* ------------------------------------------------------------ callback data
Other == <<"o", "t", "h", "e", "r">>

\* pattern_f1_f2_...: a pattern followed by the given fields.
Token(pattern, fields) == Join(<<pattern>> \o fields, <<"_">>)

\* Callback data that reaches this picker from another picker on the same
\* channel, one with pattern q.
OtherInstance(q) ==
    { NavToken(q, Prev, 2, 7), NavToken(q, NextStr, 2, 12),
      DayToken(q, 2, 7, 5), Token(q, <<Ignore>>) }

\* Callback data that no keyboard of this picker carries: data of other
\* pickers, the spec's "other_day_1402_1_5", and data under this picker's
\* pattern with a missing, empty or unknown action or with arguments that
\* create_calendar never writes.
Forged ==
    UNION { OtherInstance(q) : q \in Patterns \ {callback_pattern} }
    \cup { DayToken(Other, 1402, 1, 5),
           callback_pattern,
           Token(callback_pattern, << <<>> >>),
           Token(callback_pattern, <<Ignore>>),
           Token(callback_pattern, << <<"f", "o", "o">>, <<"1">>, <<"2">> >>),
           Token(callback_pattern, <<Prev, <<"1">> >>),
           Token(callback_pattern, <<Prev, <<"x">>, <<"1">> >>),
           Token(callback_pattern, <<NextStr, <<"1">>, <<"2">>, <<"3">> >>),
           Token(callback_pattern, <<NextStr, <<"2">>, <<>> >>),
           Token(callback_pattern, <<Day, <<"1">>, <<"2">> >>),
           Token(callback_pattern, <<Day, <<"2">>, <<"7">>, <<"5">>, <<"1">> >>),
           Token(callback_pattern, <<Day, <<"2">>, <<"7">>, <<"5", "a">> >>),
           Token(callback_pattern, <<Day, <<"0", "2">>, <<"0", "7">>, <<"0", "5">> >>),
           DayToken(callback_pattern, 2, 13, 40),
           DayToken(callback_pattern, 3, 12, 30),
           NavToken(callback_pattern, Prev, 2, 14),
           NavToken(callback_pattern, NextStr, 2, -1),
           NavToken(callback_pattern, Prev, -5, 3) }

\* ----------------------------------------------------------- specifications
\* One call at a time, every button of every keyboard and every forged
\* callback.
Next ==
    \/ \E y \in MINYEAR..MaxYear, m \in 1..12 : ShowCalendar(Some(y), Some(m))
    \/ ShowCalendar(None, None)
    \/ \E r \in 1..Len(markup.keyboard) :
         \E k \in 1..Len(markup.keyboard[r]) : PressButton(1, r, k)
    \/ \E data \in Forged : ForgedQuery(1, data)
    \/ Answered(1)
    \/ Edited(1)
    \/ Return(1)

Spec == Init /\ [][Next]_vars


\* Calls in flight together, on the header buttons of the first two months
\* and two forged callbacks.
ConcMonths == { [year |-> 1, month |-> 1], [year |-> 1, month |-> 2] }

ConcForged ==
    { DayToken(callback_pattern, 1, 1, 5),
      Token(callback_pattern, <<Prev, <<"x">>, <<"1">> >>) }

InitConc ==
    Init /\ callback_pattern = Calendar /\ holidays # {} /\ today.year = 2

NextConc ==
    \/ ShowCalendar(Some(1), Some(1))
    \/ \E c \in Calls, k \in 1..3 :
         /\ [year |-> markup.year, month |-> markup.month] \in ConcMonths
         /\ PressButton(c, 1, k)
    \/ \E c \in Calls, data \in ConcForged : ForgedQuery(c, data)
    \/ \E c \in Calls : Answered(c)
    \/ \E c \in Calls : Edited(c)
    \/ \E c \in Calls : Return(c)

SpecConc == InitConc /\ [][NextConc]_vars


\* ------------------------------------------------------------------ claims
Finished(c) == calls[c].pc = "done"

\* The data begins with the picker's pattern: the test of process_selection.
Matches(data) == StartsWith(data, callback_pattern)

HasAction(data) == Len(Split(data)) >= 2

ActionOf(data) == Split(data)[2]

ArgsOf(data) == SubSeq(Split(data), 3, Len(Split(data)))

\* A field that is the decimal writing of an integer.
IsInt(f) == StrToInt(f).ok

ExactlyInts(args, n) == Len(args) = n /\ \A i \in 1..n : IsInt(args[i])

IntArg(data, i) == StrToInt(ArgsOf(data)[i]).val

Marked(cell) == cell.text # <<>> /\ cell.text[1] = HolidayMark

StripMark(text) == IF text # <<>> /\ text[1] = HolidayMark THEN Tail(text) ELSE text

\* A cell that displays a day number, and the number.
IsDayCell(cell) == IsInt(StripMark(cell.text))

DayOf(cell) == StrToInt(StripMark(cell.text)).val

\* The month before and the month after (year, month), as the calendar has
\* them.
MonthBefore(year, month) ==
    IF month > 1 THEN [year |-> year, month |-> month - 1]
    ELSE [year |-> year - 1, month |-> 12]

MonthAfter(year, month) ==
    IF month < 12 THEN [year |-> year, month |-> month + 1]
    ELSE [year |-> year + 1, month |-> 1]

\* Call c has re-rendered the calendar for month ym: it sent a keyboard made
\* for ym whose prev and next buttons carry ym, and returned no date.
ReRendered(c, ym) ==
    LET kb == calls[c].out.reply_markup
    IN  /\ calls[c].out.kind = "edit"
        /\ calls[c].out.value = <<>>
        /\ kb.year = ym.year /\ kb.month = ym.month
        /\ kb.keyboard[1][1].callback_data
             = NavToken(callback_pattern, Prev, ym.year, ym.month)
        /\ kb.keyboard[1][3].callback_data
             = NavToken(callback_pattern, NextStr, ym.year, ym.month)

\* C1. Prefix isolation: callback data written under a pattern other than
\* the picker's own (another picker's, or the "other" of the spec's example)
\* and not under the picker's own is a no-op: no date, no re-render, no
\* error.
WrittenUnder(data, q) == StartsWith(data, q \o <<"_">>)

PrefixIsolation ==
    \A c \in Calls :
        ( /\ Finished(c)
          /\ \E q \in (Patterns \cup {Other}) \ {callback_pattern} :
                 WrittenUnder(calls[c].data, q)
          /\ ~WrittenUnder(calls[c].data, callback_pattern) )
        => calls[c].out.kind = "none"

\* C2. Selection round trip: the callback data of the button that shows day
\* d on the keyboard made for (Y, M), decoded by the same picker, returns
\* the string "Y/M/d" without padding, whatever the picker's pattern.
SelectionRoundTrip ==
    \A c \in Calls :
        (Finished(c) /\ IsDayCell(calls[c].cell))
        => /\ calls[c].out.kind = "date"
           /\ calls[c].out.value
                = DateKey(calls[c].from.year, calls[c].from.month,
                          DayOf(calls[c].cell))

\* The data is a prev or next token with exactly two integers (Y, M) that
\* name a month of the calendar.
IsNavData(data) ==
    /\ Matches(data) /\ HasAction(data)
    /\ ActionOf(data) \in {Prev, NextStr}
    /\ ExactlyInts(ArgsOf(data), 2)
    /\ IntArg(data, 1) \in MINYEAR..MAXYEAR
    /\ IntArg(data, 2) \in 1..12

ClaimedTarget(data) ==
    IF ActionOf(data) = Prev
    THEN MonthBefore(IntArg(data, 1), IntArg(data, 2))
    ELSE MonthAfter(IntArg(data, 1), IntArg(data, 2))

DayRowCell(kb, i) == kb[3 + ((i - 1) \div 7)][1 + ((i - 1) % 7)]

ColumnOf(i) == (i - 1) % 7

\* The column of day 1: the days from Saturday, the first column, to the
\* weekday of day 1.
FirstColumn(year, month) == (GregorianWeekday(year, month, 1) + 7 - 5) % 7

\* The days of a month, as the claim has them.
ClaimedDays(year, month) ==
    IF month \in 1..6 THEN 31
    ELSE IF month \in 7..11 THEN 30
    ELSE IF is_leap(year) THEN 30 ELSE 29

CeilDiv(a, b) == (a + b - 1) \div b

\* What C4 says of a keyboard kb made for (year, month).
WellFormedGrid(kb, year, month) ==
    LET offset == FirstColumn(year, month)
        total  == ClaimedDays(year, month)
    IN  /\ Len(kb) = 2 + CeilDiv(offset + total, 7)
        /\ \A r \in 3..Len(kb) : Len(kb[r]) = 7
        /\ \A i \in 1..(7 * (Len(kb) - 2)) :
              LET cell == DayRowCell(kb, i)
              IN  IF i \in (offset + 1)..(offset + total)
                  THEN IsDayCell(cell) /\ DayOf(cell) = i - offset
                  ELSE cell.text = <<" ">> /\ cell.callback_data = Ignore

\* C4. Grid structure: the displayed keyboard, made for (year, month), has
\* 2 + ceil((offset + total) / 7) rows, 7 cells in every row after the two
\* header rows, and in those rows offset blanks, then the days 1..total in
\* order, then blanks; every blank carries "ignore".
GridStructure ==
    Shown => WellFormedGrid(markup.keyboard, markup.year, markup.month)

\* Month 12 of a leap year is displayed: 30 days.
GridStructureWitness ==
    /\ Shown /\ markup.month = 12 /\ is_leap(markup.year)
    /\ \E i \in 1..(7 * (Len(markup.keyboard) - 2)) :
          /\ IsDayCell(DayRowCell(markup.keyboard, i))
          /\ DayOf(DayRowCell(markup.keyboard, i)) = 30

\* The data has the picker's pattern and a prev, next or day action, and its
\* arguments are not exactly the integers the action takes.
IsMalformed(data) ==
    /\ Matches(data) /\ HasAction(data)
    /\ \/ ActionOf(data) \in {Prev, NextStr} /\ ~ExactlyInts(ArgsOf(data), 2)
       \/ ActionOf(data) = Day /\ ~ExactlyInts(ArgsOf(data), 3)

NoOpOnNonAction ==
    \A c \in Calls :
        ( /\ Finished(c)
          /\ \/ /\ Matches(calls[c].data)
                /\ (HasAction(calls[c].data)
                      => ActionOf(calls[c].data) \notin {Prev, NextStr, Day})
             \/ /\ calls[c].cell # NoCell
                /\ calls[c].cell.callback_data = Ignore )
        => calls[c].out.kind = "none"

\* The date that a returned string "y/m/d" denotes.
DateFields(value) == SplitOn(value, "/")

\* C10. Selected dates are valid: the string a finished call returned has
\* three integer fields y/m/d with m in 1..12 and d in 1..daysInMonth(y, m).
SelectedDatesValid ==
    \A c \in Calls :
        (Finished(c) /\ calls[c].out.kind = "date")
        => LET f == DateFields(calls[c].out.value)
           IN  /\ ExactlyInts(f, 3)
               /\ StrToInt(f[2]).val \in 1..12
               /\ StrToInt(f[3]).val
                    \in 1..ClaimedDays(StrToInt(f[1]).val, StrToInt(f[2]).val)

\* C7. Holiday classification: on the displayed keyboard, made for (Y, M),
\* the cell of day D bears the holiday mark iff "Y/M/D" is a key of holidays
\* or Y/M/D is a Friday (Gregorian weekday 4); Y/M/D is a Friday iff the cell
\* is in column 6; hence with no holidays the marked cells are the day cells
\* of column 6.
HolidayClassification ==
    Shown =>
      \A i \in 1..(7 * (Len(markup.keyboard) - 2)) :
          LET cell   == DayRowCell(markup.keyboard, i)
              friday == GregorianWeekday(markup.year, markup.month, DayOf(cell)) = 4
              key    == DateKey(markup.year, markup.month, DayOf(cell))
          IN  IsDayCell(cell) =>
                /\ Marked(cell) <=> (key \in holidays \/ friday)
                /\ friday <=> ColumnOf(i) = 6
                /\ holidays = {} => (Marked(cell) <=> ColumnOf(i) = 6)

\* A day that is in the holiday file and is not a Friday is displayed with
\* the mark, and a Friday is too.
HolidayClassificationWitness ==
    /\ Shown /\ holidays # {}
    /\ \E i, j \in 1..(7 * (Len(markup.keyboard) - 2)) :
          /\ IsDayCell(DayRowCell(markup.keyboard, i))
          /\ Marked(DayRowCell(markup.keyboard, i))
          /\ ColumnOf(i) # 6
          /\ IsDayCell(DayRowCell(markup.keyboard, j))
          /\ Marked(DayRowCell(markup.keyboard, j))
          /\ ColumnOf(j) = 6


\* The call's data is that of the prev or next button of a keyboard the
\* picker displayed.
PressedPrev(c) == calls[c].cell # NoCell /\ calls[c].cell.text = <<"<-">>

PressedNext(c) == calls[c].cell # NoCell /\ calls[c].cell.text = <<"->">>

\* The month one before (prev) or one after (next) the month of the
\* keyboard whose button call c pressed.
Neighbour(c) ==
    IF PressedPrev(c) THEN MonthBefore(calls[c].from.year, calls[c].from.month)
    ELSE MonthAfter(calls[c].from.year, calls[c].from.month)

\* The keyboard call c sent is for month ym, a month in 1..12.
SentMonth(c, ym) ==
    /\ calls[c].out.reply_markup.month \in 1..12
    /\ calls[c].out.reply_markup.year = ym.year
    /\ calls[c].out.reply_markup.month = ym.month

\* Decoding the opposite button of the keyboard call c sent re-renders the
\* month of the keyboard whose button call c pressed.
StepsBack(c) ==
    LET kb   == calls[c].out.reply_markup.keyboard
        back == Decode(kb[1][IF PressedPrev(c) THEN 3 ELSE 1].callback_data)
    IN  /\ back.kind = "edit"
        /\ back.reply_markup.year = calls[c].from.year
        /\ back.reply_markup.month = calls[c].from.month

Alone(data) == Decode(data)

\* C8. Non-interference: no step changes callback_pattern, holidays or
\* weekdays; a call that leaves the await of query.answer() has the outcome
\* that its data has when decoded alone, and a call that leaves the await of
\* edit_message_reply_markup has put on the message the keyboard that its
\* data re-renders when decoded alone, whatever the other calls do.
NonInterference ==
    [][ /\ callback_pattern' = callback_pattern
        /\ holidays' = holidays
        /\ weekdays' = weekdays
        /\ \A c \in Calls :
             /\ (calls[c].pc = "answer" /\ calls'[c].pc # "answer")
                  => calls'[c].out = Alone(calls[c].data)
             /\ (calls[c].pc = "edit" /\ calls'[c].pc = "done")
                  => /\ markup' = Alone(calls[c].data).reply_markup
                     /\ calls'[c].out = Alone(calls[c].data) ]_vars

\* Two calls await edit_message_reply_markup at once with different
\* keyboards while a third keyboard is displayed.
NonInterferenceWitness ==
    \E c, d \in Calls :
        /\ calls[c].pc = "edit" /\ calls[d].pc = "edit"
        /\ calls[c].out.reply_markup # calls[d].out.reply_markup
        /\ markup # calls[c].out.reply_markup
        /\ markup # calls[d].out.reply_markup

=============================================================================
